---------------------------- MODULE Spec2Model ----------------------------
(***************************************************************************)
(* A model of HWMX: the Matrix class, the determinant engine               *)
(* (LU decomposition with partial pivoting), the two matrix loaders and    *)
(* main.                                                                   *)
(*                                                                         *)
(* Scalars.  The program computes in long double.  The model computes in   *)
(* exact arithmetic: a scalar is a quotient of two polynomials with        *)
(* integer coefficients in the constant t = 10^-16, so that values far     *)
(* below the singularity threshold 1e-15 = 10 t are representable next to  *)
(* ordinary integers.  Rounding is not modelled.                           *)
(***************************************************************************)
EXTENDS Integers, Sequences, FiniteSets, TLC

VARIABLES run, hist, alg, objs, heap, ops, io

vars == <<run, hist, alg, objs, heap, ops, io>>

(***************************************************************************)
(* Bounds of the model.                                                    *)
(***************************************************************************)
MaxN == 2

MaxObjs == 2

MaxOps == 4

MaxLines == 2

MaxTokens == 3

(***************************************************************************)
(* Polynomials in t: a sequence of integer coefficients, lowest power      *)
(* first, without trailing zeros; <<>> is the zero polynomial.             *)
(***************************************************************************)
Max2(a, b) == IF a >= b THEN a ELSE b

Min2(a, b) == IF a <= b THEN a ELSE b

IAbs(a) == IF a < 0 THEN -a ELSE a

RECURSIVE Gcd(_, _)
Gcd(a, b) == IF b = 0 THEN a ELSE Gcd(b, a % b)

CoefAt(p, i) == IF i >= 1 /\ i <= Len(p) THEN p[i] ELSE 0

RECURSIVE PTrim(_)
PTrim(p) ==
    IF p = <<>> THEN p
    ELSE IF p[Len(p)] = 0 THEN PTrim(SubSeq(p, 1, Len(p) - 1))
    ELSE p

PAdd(p, q) ==
    IF p = <<>> THEN q
    ELSE IF q = <<>> THEN p
    ELSE PTrim([i \in 1..Max2(Len(p), Len(q)) |-> CoefAt(p, i) + CoefAt(q, i)])

PNeg(p) == [i \in 1..Len(p) |-> -p[i]]

RECURSIVE ConvSum(_, _, _, _)
ConvSum(p, q, i, j) ==
    IF j > Len(p) THEN 0
    ELSE p[j] * CoefAt(q, i - j + 1) + ConvSum(p, q, i, j + 1)

PMul(p, q) ==
    IF p = <<>> \/ q = <<>> THEN <<>>
    ELSE IF q = <<1>> THEN p
    ELSE IF p = <<1>> THEN q
    ELSE [i \in 1..(Len(p) + Len(q) - 1) |-> ConvSum(p, q, i, 1)]

\* The number of leading (lowest-power) zero coefficients of a non-zero p.
RECURSIVE LowZeros(_, _)
LowZeros(p, i) == IF i > Len(p) \/ p[i] # 0 THEN i - 1 ELSE LowZeros(p, i + 1)

\* The sign of p at t = 10^-16: the sign of its lowest non-zero coefficient
\* (every coefficient is far smaller than 1/t in magnitude).
PSign(p) ==
    IF p = <<>> THEN 0
    ELSE LET c == p[LowZeros(p, 1) + 1] IN IF c > 0 THEN 1 ELSE -1

RECURSIVE PContent(_, _)
PContent(p, i) == IF i > Len(p) THEN 0 ELSE Gcd(IAbs(p[i]), PContent(p, i + 1))

(***************************************************************************)
(* Scalars (long double, idealised): <<numerator, denominator>> with a     *)
(* positive denominator, common powers of t and common integer factors     *)
(* cancelled.                                                              *)
(***************************************************************************)
Norm(p, q) ==
    IF p = <<>> THEN << <<>>, <<1>> >>
    ELSE LET z == Min2(LowZeros(p, 1), LowZeros(q, 1))
             g == Gcd(PContent(p, 1), PContent(q, 1)) * PSign(q)
         IN  << [i \in 1..(Len(p) - z) |-> p[i + z] \div g],
                [i \in 1..(Len(q) - z) |-> q[i + z] \div g] >>

FromInt(a) == IF a = 0 THEN << <<>>, <<1>> >> ELSE << <<a>>, <<1>> >>

Zero == FromInt(0)

One == FromInt(1)

\* a * 10^-16
TinyTimes(a) == IF a = 0 THEN Zero ELSE << <<0, a>>, <<1>> >>

\* The singularity threshold 1e-15L.
Eps == TinyTimes(10)

NAdd(x, y) ==
    IF x[2] = <<1>> /\ y[2] = <<1>> THEN <<PAdd(x[1], y[1]), <<1>> >>
    ELSE Norm(PAdd(PMul(x[1], y[2]), PMul(y[1], x[2])), PMul(x[2], y[2]))

NNeg(x) == <<PNeg(x[1]), x[2]>>

NSub(x, y) == NAdd(x, NNeg(y))

NMul(x, y) ==
    IF x[2] = <<1>> /\ y[2] = <<1>> THEN <<PMul(x[1], y[1]), <<1>> >>
    ELSE Norm(PMul(x[1], y[1]), PMul(x[2], y[2]))

\* x / y for y # 0.
NDiv(x, y) ==
    IF y = <<<<1>>, <<1>> >> THEN x
    ELSE Norm(PMul(x[1], y[2]), PMul(x[2], y[1]))

NSign(x) == PSign(x[1])

fabsl(x) == IF NSign(x) < 0 THEN NNeg(x) ELSE x

NLess(x, y) == NSign(NSub(x, y)) < 0

NEq(x, y) == NSign(NSub(x, y)) = 0

IsInt(x) == Len(x[1]) <= 1 /\ x[2] = <<1>>

IntOf(x) == CoefAt(x[1], 1)


(***************************************************************************)
(* Matrix storage.  A matrix in use by the engine is a record m with the   *)
(* fields size and data (the buffer, a sequence of size*size scalars:      *)
(* element (i, j) is data[index(i, j) + 1]) and two observations of the    *)
(* accesses made so far: oob (some access used a row or column index       *)
(* outside 0..size-1) and touched (some element was accessed).             *)
(***************************************************************************)
index(size, i, j) == i * size + j

InRange(size, i, j) == i >= 0 /\ i < size /\ j >= 0 /\ j < size

InBuffer(m, i, j) == index(m.size, i, j) >= 0 /\ index(m.size, i, j) < Len(m.data)

\* operator()(i, j), read.  A read outside the buffer is undefined; it
\* reads as Zero here and is reported by oob.
At(m, i, j) == IF InBuffer(m, i, j) THEN m.data[index(m.size, i, j) + 1] ELSE Zero

\* The row and the column of the buffer's x-th element.
RowOf(m, x) == (x - 1) \div m.size

ColOf(m, x) == (x - 1) % m.size

\* The accesses acc (a set of <<i, j>>) are added to the observations.
Accessed(m, acc) ==
    [m EXCEPT !.oob = @ \/ \E p \in acc : ~InRange(m.size, p[1], p[2]),
              !.touched = @ \/ acc # {}]

getSize(m) == m.size

\* The columns swapRows walks through.
SwapCols(m) == 0..(m.size - 1)

\* swapRows(i, j): the loop exchanges (i, k) and (j, k) for every column k;
\* the exchanges are independent of each other.
swapRows(m, i, j) ==
    IF i = j THEN m
    ELSE [Accessed(m, {<<i, k>> : k \in SwapCols(m)} \cup {<<j, k>> : k \in SwapCols(m)})
            EXCEPT !.data =
                [x \in 1..Len(m.data) |->
                    IF ColOf(m, x) \notin SwapCols(m) THEN m.data[x]
                    ELSE IF RowOf(m, x) = i THEN At(m, j, ColOf(m, x))
                    ELSE IF RowOf(m, x) = j THEN At(m, i, ColOf(m, x))
                    ELSE m.data[x]]]

(***************************************************************************)
(* calculateDeterminant.  Its activation is the record s: the matrix       *)
(* fields above, the locals k, det, sign, pivot, the returned value ret    *)
(* and pc, the position: "start", "pivot" (before the pivot search of      *)
(* column k), "elim" (before the singularity check of column k), "done".   *)
(***************************************************************************)
Activation(size, data) ==
    [size |-> size, data |-> data, oob |-> FALSE, touched |-> FALSE,
     pc |-> "start", k |-> 0, det |-> One, sign |-> 1, pivot |-> <<>>,
     ret |-> Zero]

\* The rows the pivot search of column k compares with row k.
ScanRows(s) == (s.k + 1)..(s.size - 1)

\* PivotScan with >= for >: the last row achieving the maximum wins.
RECURSIVE PivotScanLastWins(_, _, _, _)
PivotScanLastWins(s, i, max_val, pivot_row) ==
    IF i \in ScanRows(s)
    THEN IF ~NLess(fabsl(At(s, i, s.k)), max_val)
         THEN PivotScanLastWins(s, i + 1, fabsl(At(s, i, s.k)), i)
         ELSE PivotScanLastWins(s, i + 1, max_val, pivot_row)
    ELSE pivot_row

\* The pivot search from row i on: the running maximum max_val and its row
\* pivot_row, replaced only by a strictly larger absolute value.
RECURSIVE PivotScan(_, _, _, _)
PivotScan(s, i, max_val, pivot_row) ==
    IF i \in ScanRows(s)
    THEN IF NLess(max_val, fabsl(At(s, i, s.k)))
         THEN PivotScan(s, i + 1, fabsl(At(s, i, s.k)), i)
         ELSE PivotScan(s, i + 1, max_val, pivot_row)
    ELSE pivot_row

SwapPivot(pivot, k, pivot_row) ==
    [x \in 1..Len(pivot) |->
        IF x = k + 1 THEN pivot[pivot_row + 1]
        ELSE IF x = pivot_row + 1 THEN pivot[k + 1]
        ELSE pivot[x]]

\* ElimRows with i <= n for i < n.
ElimRowsInclusive(s) == (s.k + 1)..s.size

\* The rows and the columns the elimination of column k updates.
ElimRows(s) == (s.k + 1)..(s.size - 1)

ElimCols(s) == (s.k + 1)..(s.size - 1)

\* The elimination below the diagonal of column k: row i gets its factor
\* matrix(i, k) / pivot_val in column k and loses factor * row k in the
\* columns after k.  Row k and the other rows' updates do not depend on
\* each other, so every element is given from the matrix before the loop.
Eliminated(s, pivot_val) ==
    [Accessed(s, {<<i, s.k>> : i \in ElimRows(s)}
                 \cup {<<i, j>> : i \in ElimRows(s), j \in ElimCols(s)}
                 \cup {<<s.k, j>> : i \in ElimRows(s), j \in ElimCols(s)})
        EXCEPT !.data =
            [x \in 1..Len(s.data) |->
                IF RowOf(s, x) \notin ElimRows(s) THEN s.data[x]
                ELSE IF ColOf(s, x) = s.k THEN NDiv(s.data[x], pivot_val)
                ELSE IF ColOf(s, x) \in ElimCols(s)
                     THEN NSub(s.data[x],
                               NMul(NDiv(At(s, RowOf(s, x), s.k), pivot_val),
                                    At(s, s.k, ColOf(s, x))))
                ELSE s.data[x]]]

\* Entry: the two special sizes, the initialisation of the locals.
StartStep(s) ==
    IF getSize(s) = 0 THEN [s EXCEPT !.pc = "done", !.ret = One]
    ELSE IF getSize(s) = 1
         THEN [Accessed(s, {<<0, 0>>}) EXCEPT !.pc = "done", !.ret = At(s, 0, 0)]
    ELSE [s EXCEPT !.pc = "pivot", !.k = 0, !.det = One, !.sign = 1,
                   !.pivot = [i \in 1..getSize(s) |-> i - 1]]

\* Column k, steps a and b: the pivot search and the row swap.
PivotStep(s) ==
    LET pivot_row == PivotScan(s, s.k + 1, fabsl(At(s, s.k, s.k)), s.k)
        scanned == Accessed(s, {<<s.k, s.k>>} \cup {<<i, s.k>> : i \in ScanRows(s)})
    IN  IF pivot_row # s.k
        THEN [swapRows(scanned, s.k, pivot_row) EXCEPT
                 !.pivot = SwapPivot(s.pivot, s.k, pivot_row),
                 !.sign = -s.sign,
                 !.pc = "elim"]
        ELSE [scanned EXCEPT !.pc = "elim"]

\* ElimStep returning det without the sign.
ElimStepNoSign(s) ==
    LET pivot_val == At(s, s.k, s.k)
        det == NMul(s.det, pivot_val)
    IN  IF NLess(fabsl(pivot_val), Eps)
        THEN [Accessed(s, {<<s.k, s.k>>}) EXCEPT !.pc = "done", !.ret = Zero]
        ELSE IF s.k + 1 < s.size
        THEN [Eliminated(Accessed(s, {<<s.k, s.k>>}), pivot_val) EXCEPT
                 !.det = det, !.k = s.k + 1, !.pc = "pivot"]
        ELSE [Eliminated(Accessed(s, {<<s.k, s.k>>}), pivot_val) EXCEPT
                 !.det = det, !.k = s.k + 1, !.pc = "done", !.ret = det]

\* ElimStep testing pivot_val == 0 for |pivot_val| < 1e-15.
ElimStepZeroTest(s) ==
    LET pivot_val == At(s, s.k, s.k)
        det == NMul(s.det, pivot_val)
    IN  IF NEq(pivot_val, Zero)
        THEN [Accessed(s, {<<s.k, s.k>>}) EXCEPT !.pc = "done", !.ret = Zero]
        ELSE IF s.k + 1 < s.size
        THEN [Eliminated(Accessed(s, {<<s.k, s.k>>}), pivot_val) EXCEPT
                 !.det = det, !.k = s.k + 1, !.pc = "pivot"]
        ELSE [Eliminated(Accessed(s, {<<s.k, s.k>>}), pivot_val) EXCEPT
                 !.det = det, !.k = s.k + 1, !.pc = "done",
                 !.ret = NMul(det, FromInt(s.sign))]

\* Column k, steps c, d and e, then the loop test and the return.
ElimStep(s) ==
    LET pivot_val == At(s, s.k, s.k)
        det == NMul(s.det, pivot_val)
    IN  IF NLess(fabsl(pivot_val), Eps)
        THEN [Accessed(s, {<<s.k, s.k>>}) EXCEPT !.pc = "done", !.ret = Zero]
        ELSE IF s.k + 1 < s.size
        THEN [Eliminated(Accessed(s, {<<s.k, s.k>>}), pivot_val) EXCEPT
                 !.det = det, !.k = s.k + 1, !.pc = "pivot"]
        ELSE [Eliminated(Accessed(s, {<<s.k, s.k>>}), pivot_val) EXCEPT
                 !.det = det, !.k = s.k + 1, !.pc = "done",
                 !.ret = NMul(det, FromInt(s.sign))]

Step(s) ==
    CASE s.pc = "start" -> StartStep(s)
      [] s.pc = "pivot" -> PivotStep(s)
      [] s.pc = "elim" -> ElimStep(s)
      [] OTHER -> s

\* The activation after at most c further steps.
RECURSIVE RunFor(_, _)
RunFor(s, c) ==
    IF c = 0 \/ s.pc = "done" THEN s
    ELSE LET t == Step(s) IN RunFor(t, c - 1)

\* calculateDeterminant as a function of the matrix: its result and the
\* matrix it leaves behind (a call takes at most 2 * size + 1 steps).
calculateDeterminant(size, data) == RunFor(Activation(size, data), 2 * size + 1)

(***************************************************************************)
(* The engine, step by step (SpecDet).  run is the activation of one call  *)
(* of calculateDeterminant; hist records what the claims speak of and the  *)
(* code does not keep: the matrix as passed in (orig), the columns whose   *)
(* largest pivot candidate was below the threshold (below), the columns    *)
(* eliminated (elim), the number of row swaps (swaps) and the pivot values *)
(* multiplied into det (pivots).                                           *)
(***************************************************************************)
EntryVals == {FromInt(-1), Zero, FromInt(2)}

\* A value below the threshold: 6e-16.
TinyVal == TinyTimes(6)

\* The buffers of the n x n input matrices: every entry in EntryVals; the
\* last entry may also be TinyVal.
Buffers(n) ==
    IF n = 0 THEN {<<>>}
    ELSE [1..(n * n) -> EntryVals]
         \cup {[d EXCEPT ![n * n] = TinyVal] : d \in [1..(n * n) -> EntryVals]}

Idle == [op |-> "none"]

\* Every candidate of pivot column s.k (rows k..n-1) is below the threshold.
ColumnBelow(s) ==
    /\ s.pc \in {"start", "pivot"}
    /\ s.k < s.size
    /\ \A i \in s.k..(s.size - 1) : NLess(fabsl(At(s, i, s.k)), Eps)

Observe(s, t, h) ==
    [h EXCEPT !.below = IF ColumnBelow(s) THEN @ \cup {s.k} ELSE @,
              !.elim = IF s.pc = "elim" /\ t.k = s.k + 1 THEN @ \cup {s.k} ELSE @,
              !.swaps = IF t.pivot # s.pivot /\ s.pc = "pivot" THEN @ + 1 ELSE @,
              !.pivots = IF s.pc = "elim" /\ t.k = s.k + 1
                         THEN Append(@, At(s, s.k, s.k)) ELSE @]

InitDet ==
    /\ \E n \in 0..MaxN : \E d \in Buffers(n) : run = Activation(n, d)
    /\ hist = [orig |-> run.data, below |-> {}, elim |-> {}, swaps |-> 0,
               pivots |-> <<>>]
    /\ alg = Idle /\ objs = Idle /\ heap = Idle /\ ops = 0 /\ io = Idle

Start ==
    /\ run.pc = "start"
    /\ run' = StartStep(run)
    /\ hist' = Observe(run, run', hist)
    /\ UNCHANGED <<alg, objs, heap, ops, io>>

Pivot ==
    /\ run.pc = "pivot"
    /\ run' = PivotStep(run)
    /\ hist' = Observe(run, run', hist)
    /\ UNCHANGED <<alg, objs, heap, ops, io>>

Eliminate ==
    /\ run.pc = "elim"
    /\ run' = ElimStep(run)
    /\ hist' = Observe(run, run', hist)
    /\ UNCHANGED <<alg, objs, heap, ops, io>>

NextDet == Start \/ Pivot \/ Eliminate

SpecDet == InitDet /\ [][NextDet]_vars


(***************************************************************************)
(* The determinant by the Leibniz formula, over integer matrices.          *)
(***************************************************************************)
Perms(n) ==
    {f \in [0..(n - 1) -> 0..(n - 1)] :
        \A i, j \in 0..(n - 1) : i # j => f[i] # f[j]}

Inversions(f, n) ==
    Cardinality({p \in (0..(n - 1)) \X (0..(n - 1)) : p[1] < p[2] /\ f[p[1]] > f[p[2]]})

RECURSIVE ProductAlong(_, _, _, _)
ProductAlong(f, d, n, i) ==
    IF i >= n THEN 1
    ELSE IntOf(d[index(n, i, f[i]) + 1]) * ProductAlong(f, d, n, i + 1)

Term(f, d, n) ==
    (IF Inversions(f, n) % 2 = 0 THEN 1 ELSE -1) * ProductAlong(f, d, n, 0)

RECURSIVE SumTerms(_, _, _)
SumTerms(fs, d, n) ==
    IF fs = {} THEN 0
    ELSE LET f == CHOOSE g \in fs : TRUE
         IN  Term(f, d, n) + SumTerms(fs \ {f}, d, n)

LeibnizDet(n, d) == SumTerms(Perms(n), d, n)

AllInt(d) == \A i \in 1..Len(d) : IsInt(d[i])

RECURSIVE Product(_, _)
Product(xs, i) == IF i > Len(xs) THEN One ELSE NMul(xs[i], Product(xs, i + 1))

Done == run.pc = "done"

\* C1: on an integer matrix of size n, calculateDeterminant returns the
\* Leibniz determinant of the matrix passed in: 1 for n = 0, M(0,0) for
\* n = 1, and, when all n columns were processed, the product of the n pivot
\* values times the sign accumulator.
C1_Determinant ==
    (Done /\ AllInt(hist.orig)) =>
        /\ NEq(run.ret, FromInt(LeibnizDet(run.size, hist.orig)))
        /\ (run.size = 0 => run.ret = One)
        /\ (run.size = 1 => run.ret = hist.orig[1])
        /\ (Len(hist.pivots) = run.size /\ run.size >= 2 =>
                run.ret = NMul(Product(hist.pivots, 1), FromInt(run.sign)))

\* A 2 x 2 integer matrix, one row swap, both columns eliminated, a
\* non-zero determinant.
C1_Witness ==
    /\ Done /\ run.size = 2 /\ AllInt(hist.orig)
    /\ hist.swaps = 1 /\ Len(hist.pivots) = 2
    /\ ~NEq(run.ret, Zero)

\* C8 as stated: for n >= 1, once the largest pivot candidate of some
\* column is below the threshold, the call returns exactly 0 and eliminates
\* neither that column nor a later one.
C8_AsStated ==
    (Done /\ run.size >= 1 /\ hist.below # {}) =>
        /\ run.ret = Zero
        /\ \A c \in hist.elim : \A b \in hist.below : c < b

\* C8 amended: the same for n >= 2 (a 1 x 1 matrix is returned as it is,
\* without the singularity check).
C8_Singular ==
    (Done /\ run.size >= 2 /\ hist.below # {}) =>
        /\ run.ret = Zero
        /\ \A c \in hist.elim : \A b \in hist.below : c < b

\* Column 1 of a 2 x 2 matrix has a non-zero pivot below the threshold,
\* after column 0 was eliminated.
C8_Witness ==
    /\ Done /\ run.size = 2
    /\ hist.below = {1} /\ hist.elim = {0}
    /\ ~NEq(At(run, 1, 1), Zero)
    /\ run.ret = Zero

\* The row of the matrix before the pivot step that the step brought to
\* row k, read off the permutation record.
ChosenRow(s, t) == CHOOSE i \in s.k..(s.size - 1) : s.pivot[i + 1] = t.pivot[s.k + 1]

RowsExchanged(s, a, b) ==
    [x \in 1..Len(s.data) |->
        LET i == (x - 1) \div s.size
            j == (x - 1) % s.size
        IN  IF i = a THEN At(s, b, j) ELSE IF i = b THEN At(s, a, j) ELSE s.data[x]]

SignOfSwaps(c) == IF c % 2 = 0 THEN 1 ELSE -1

PivotStepRight(s, t, swaps) ==
    LET k == s.k
        pr == ChosenRow(s, t)
        best == fabsl(At(s, pr, k))
    IN  /\ \A i \in k..(s.size - 1) : ~NLess(best, fabsl(At(s, i, k)))
        /\ \A i \in k..(pr - 1) : NLess(fabsl(At(s, i, k)), best)
        /\ pr # k => t.data = RowsExchanged(s, k, pr) /\ t.sign = -s.sign
        /\ pr = k => t.data = s.data /\ t.sign = s.sign
        /\ \A i \in (k + 1)..(s.size - 1) :
               ~NLess(fabsl(At(t, k, k)), fabsl(At(t, i, k)))
        /\ t.sign = SignOfSwaps(swaps)

\* C9: the pivot step of column k brings to row k the lowest-indexed row of
\* k..n-1 whose entry in column k has the largest absolute value, swaps rows
\* and flips the sign exactly when that row is not row k, leaves
\* |matrix(k,k)| >= |matrix(i,k)| for i > k, and keeps the sign equal to -1
\* to the number of swaps.
C9_PartialPivoting ==
    [][run.pc = "pivot" => PivotStepRight(run, run', hist'.swaps)]_vars

\* After the pivot step of column 0 of a 2 x 2 matrix the rows were
\* swapped and the sign is -1.
C9_Witness ==
    /\ run.pc = "elim" /\ run.k = 0 /\ run.size = 2
    /\ run.pivot = <<1, 0>> /\ run.sign = -1 /\ hist.swaps = 1
    /\ NLess(fabsl(At(run, 1, 0)), fabsl(At(run, 0, 0)))

\* The number of steps a call may still take, at most.
Rank(s) ==
    CASE s.pc = "start" -> 2 * s.size + 1
      [] s.pc = "pivot" -> 2 * (s.size - s.k)
      [] s.pc = "elim" -> 2 * (s.size - s.k) - 1
      [] OTHER -> 0

\* C10: every call terminates (until it is done it can take a step, and
\* every step lowers Rank, a natural number), every element access uses a
\* row and a column index in 0..n-1, and a 0 x 0 matrix is never accessed.
C10_TerminatesInRange ==
    /\ [](~run.oob /\ (run.size = 0 => ~run.touched))
    /\ [](Rank(run) >= 0 /\ (~Done => run.pc \in {"start", "pivot", "elim"}))
    /\ [][Rank(run') < Rank(run)]_vars

\* A 2 x 2 call that went through both columns and accessed elements.
C10_Witness ==
    /\ Done /\ run.size = 2 /\ run.touched /\ run.k = 2 /\ hist.elim = {0, 1}


(***************************************************************************)
(* The engine as a function (SpecAlg): a matrix is drawn, then either two  *)
(* of its rows are swapped or one row is multiplied by a scalar, and       *)
(* calculateDeterminant is applied to a copy of the matrix and to a copy   *)
(* of the changed matrix.  alg holds the matrix, what was done to it, and  *)
(* the two results det0 (matrix) and det1 (changed matrix).                *)
(***************************************************************************)
AlgVals == {Zero, One, FromInt(2), TinyVal}

Scalars == {Zero, One, FromInt(2), TinyTimes(1)}

\* 2 x 2 matrices over AlgVals, and 3 x 3 matrices over AlgVals whose first
\* column is all ones (every row ties in the first pivot search).
AlgBuffers(n) ==
    IF n = 2 THEN [1..4 -> AlgVals]
    ELSE {d \in [1..9 -> AlgVals] : d[1] = One /\ d[4] = One /\ d[7] = One}

\* The buffer with rows a and b exchanged, as Matrix::swapRows leaves it.
SwappedBuffer(n, d, a, b) ==
    swapRows([size |-> n, data |-> d, oob |-> FALSE, touched |-> FALSE], a, b).data

\* The buffer with row r multiplied by c.
ScaledBuffer(n, d, r, c) ==
    [x \in 1..Len(d) |-> IF (x - 1) \div n = r THEN NMul(c, d[x]) ELSE d[x]]

InitAlg ==
    /\ \E n \in 2..3 : \E d \in AlgBuffers(n) :
           alg = [op |-> "none", size |-> n, data |-> d, a |-> 0, b |-> 0,
                  c |-> One, det0 |-> Zero, det1 |-> Zero]
    /\ run = Idle /\ hist = Idle /\ objs = Idle /\ heap = Idle /\ ops = 0
    /\ io = Idle

SwapAndCompare ==
    /\ alg.op = "none"
    /\ \E a, b \in 0..(alg.size - 1) :
           /\ a < b
           /\ alg' = [alg EXCEPT
                  !.op = "swap", !.a = a, !.b = b,
                  !.det0 = calculateDeterminant(alg.size, alg.data).ret,
                  !.det1 = calculateDeterminant(alg.size,
                               SwappedBuffer(alg.size, alg.data, a, b)).ret]
    /\ UNCHANGED <<run, hist, objs, heap, ops, io>>

ScaleAndCompare ==
    /\ alg.op = "none"
    /\ \E r \in 0..(alg.size - 1) : \E c \in Scalars :
           alg' = [alg EXCEPT
               !.op = "scale", !.a = r, !.c = c,
               !.det0 = calculateDeterminant(alg.size, alg.data).ret,
               !.det1 = calculateDeterminant(alg.size,
                            ScaledBuffer(alg.size, alg.data, r, c)).ret]
    /\ UNCHANGED <<run, hist, objs, heap, ops, io>>

NextAlg == SwapAndCompare \/ ScaleAndCompare

SpecAlg == InitAlg /\ [][NextAlg]_vars

\* C2: calculateDeterminant of the matrix with two rows swapped is exactly
\* the negation of calculateDeterminant of the matrix.
C2_SwapNegates == alg.op = "swap" => NEq(alg.det1, NNeg(alg.det0))

\* C3: calculateDeterminant of the matrix with one row multiplied by c is
\* c times calculateDeterminant of the matrix.
C3_ScaleScales == alg.op = "scale" => NEq(alg.det1, NMul(alg.c, alg.det0))


(***************************************************************************)
(* Matrix objects (SpecObj).  objs[o] is the object o: live (constructed   *)
(* and not destroyed), size, and data, the unique_ptr: Null or the         *)
(* identity of a buffer.  heap[b] is the buffer b: used and its cells.     *)
(* ops counts the operations done.  hist records the last operation and    *)
(* dup, the pairs <<original, duplicate>> made by a copy and not yet       *)
(* undone by an assignment, a move or a destruction of either.             *)
(***************************************************************************)
Objs == 1..MaxObjs

\* One buffer more than objects: copy assignment allocates the new buffer
\* before it releases the old one.
Bufs == 1..(MaxObjs + 1)

Null == 0

ObjSizes == {0, 1, 2}

WriteVals == {One, FromInt(2)}

NoObj == [live |-> FALSE, size |-> 0, data |-> Null]

FreeBuf == [used |-> FALSE, cells |-> <<>>]

\* make_unique<long double[]>(len): a fresh buffer of len value-initialised
\* (zero) elements.
Fresh(hp) == CHOOSE b \in Bufs : ~hp[b].used /\ \A c \in Bufs : c < b => hp[c].used

Allocated(hp, len) ==
    [hp EXCEPT ![Fresh(hp)] = [used |-> TRUE, cells |-> [x \in 1..len |-> Zero]]]

\* The release of the buffer a unique_ptr gives up.
Released(hp, ptr) == IF ptr = Null THEN hp ELSE [hp EXCEPT ![ptr] = FreeBuf]

\* std::copy of the first len elements of the buffer at from into the
\* buffer at to.
Copied(hp, from, to, len) ==
    IF len = 0 THEN hp
    ELSE [hp EXCEPT ![to].cells =
             [x \in 1..Len(@) |-> IF x <= len THEN hp[from].cells[x] ELSE @[x]]]

\* Matrix(size_t n)
Constructed(st, o, n) ==
    [objs |-> [st.objs EXCEPT ![o] = [live |-> TRUE, size |-> n,
                                      data |-> Fresh(st.heap)]],
     heap |-> Allocated(st.heap, n * n)]

\* Matrix(const Matrix& other) with a shallow copy of the pointer.
CopyConstructedShallow(st, o, other) ==
    [objs |-> [st.objs EXCEPT ![o] = [live |-> TRUE, size |-> st.objs[other].size,
                                      data |-> st.objs[other].data]],
     heap |-> st.heap]

\* Matrix(const Matrix& other)
CopyConstructed(st, o, other) ==
    LET n == st.objs[other].size
        b == Fresh(st.heap)
    IN  [objs |-> [st.objs EXCEPT ![o] = [live |-> TRUE, size |-> n, data |-> b]],
         heap |-> Copied(Allocated(st.heap, n * n), st.objs[other].data, b, n * n)]

\* Matrix(Matrix&& other)
MoveConstructed(st, o, other) ==
    [objs |-> [st.objs EXCEPT
                  ![o] = [live |-> TRUE, size |-> st.objs[other].size,
                          data |-> st.objs[other].data],
                  ![other] = [@ EXCEPT !.data = Null, !.size = 0]],
     heap |-> st.heap]

\* operator=(const Matrix& other)
CopyAssigned(st, o, other) ==
    IF o # other
    THEN LET n == st.objs[other].size
             b == Fresh(st.heap)
         IN  [objs |-> [st.objs EXCEPT ![o] = [@ EXCEPT !.size = n, !.data = b]],
              heap |-> Released(Copied(Allocated(st.heap, n * n),
                                       st.objs[other].data, b, n * n),
                                st.objs[o].data)]
    ELSE st

\* operator=(Matrix&& other) leaving other.size as it was.
MoveAssignedKeepSize(st, o, other) ==
    IF o # other
    THEN [objs |-> [st.objs EXCEPT
                       ![o] = [@ EXCEPT !.size = st.objs[other].size,
                                        !.data = st.objs[other].data],
                       ![other] = [@ EXCEPT !.data = Null]],
          heap |-> Released(st.heap, st.objs[o].data)]
    ELSE st

\* operator=(Matrix&& other)
MoveAssigned(st, o, other) ==
    IF o # other
    THEN [objs |-> [st.objs EXCEPT
                       ![o] = [@ EXCEPT !.size = st.objs[other].size,
                                        !.data = st.objs[other].data],
                       ![other] = [@ EXCEPT !.data = Null, !.size = 0]],
          heap |-> Released(st.heap, st.objs[o].data)]
    ELSE st

\* ~Matrix()
Destroyed(st, o) ==
    [objs |-> [st.objs EXCEPT ![o] = NoObj],
     heap |-> Released(st.heap, st.objs[o].data)]

\* The cells of o's buffer (none behind a null pointer).
Cells(st, o) == IF st.objs[o].data = Null THEN <<>> ELSE st.heap[st.objs[o].data].cells

\* The matrix o as the engine and swapRows see it.
AsMatrix(st, o) ==
    [size |-> st.objs[o].size, data |-> Cells(st, o), oob |-> FALSE,
     touched |-> FALSE]

\* o's buffer with the cells replaced.
Stored(st, o, cells) ==
    IF st.objs[o].data = Null THEN st
    ELSE [st EXCEPT !.heap[st.objs[o].data].cells = cells]

Now == [objs |-> objs, heap |-> heap]

Free(o) == ~objs[o].live

Live(o) == objs[o].live

\* The pairs of dup that do not involve any object of os.
Without(dup, os) == {p \in dup : p[1] \notin os /\ p[2] \notin os}

Did(st, name, o, other, dup) ==
    /\ ops < MaxOps
    /\ ops' = ops + 1
    /\ objs' = st.objs
    /\ heap' = st.heap
    /\ hist' = [last |-> name, obj |-> o, other |-> other, dup |-> dup]
    /\ UNCHANGED <<run, alg, io>>

InitObj ==
    /\ objs = [o \in Objs |-> NoObj]
    /\ heap = [b \in Bufs |-> FreeBuf]
    /\ ops = 0
    /\ hist = [last |-> "none", obj |-> 0, other |-> 0, dup |-> {}]
    /\ run = Idle /\ alg = Idle /\ io = Idle

Construct ==
    \E o \in Objs : \E n \in ObjSizes :
        /\ Free(o)
        /\ Did(Constructed(Now, o, n), "construct", o, 0, hist.dup)

CopyConstruct ==
    \E o, other \in Objs :
        /\ Free(o) /\ Live(other)
        /\ Did(CopyConstructed(Now, o, other), "copy-construct", o, other,
               hist.dup \cup {<<other, o>>})

\* Matrix::copy(): the object returned is Matrix(*this).
CopyMethod ==
    \E o, other \in Objs :
        /\ Free(o) /\ Live(other)
        /\ Did(CopyConstructed(Now, o, other), "copy", o, other,
               hist.dup \cup {<<other, o>>})

MoveConstruct ==
    \E o, other \in Objs :
        /\ Free(o) /\ Live(other)
        /\ Did(MoveConstructed(Now, o, other), "move-construct", o, other,
               Without(hist.dup, {other}))

CopyAssign ==
    \E o, other \in Objs :
        /\ Live(o) /\ Live(other)
        /\ Did(CopyAssigned(Now, o, other), "copy-assign", o, other,
               IF o = other THEN hist.dup
               ELSE Without(hist.dup, {o}) \cup {<<other, o>>})

MoveAssign ==
    \E o, other \in Objs :
        /\ Live(o) /\ Live(other)
        /\ Did(MoveAssigned(Now, o, other), "move-assign", o, other,
               IF o = other THEN hist.dup ELSE Without(hist.dup, {o, other}))

Destroy ==
    \E o \in Objs :
        /\ Live(o)
        /\ Did(Destroyed(Now, o), "destroy", o, 0, Without(hist.dup, {o}))

\* matrix(i, j) = v
WriteElement ==
    \E o \in Objs : \E i, j \in 0..2 : \E v \in WriteVals :
        /\ Live(o) /\ InRange(objs[o].size, i, j)
        /\ Did(Stored(Now, o, [Cells(Now, o) EXCEPT ![index(objs[o].size, i, j) + 1] = v]),
               "write", o, 0, hist.dup)

SwapRowsOf ==
    \E o \in Objs : \E i, j \in 0..2 :
        /\ Live(o) /\ InRange(objs[o].size, i, j) /\ i < j
        /\ Did(Stored(Now, o, swapRows(AsMatrix(Now, o), i, j).data),
               "swapRows", o, 0, hist.dup)

DeterminantOf ==
    \E o \in Objs :
        /\ Live(o)
        /\ Did(Stored(Now, o, calculateDeterminant(objs[o].size, Cells(Now, o)).data),
               "determinant", o, 0, hist.dup)

NextObj ==
    \/ Construct \/ CopyConstruct \/ CopyMethod \/ MoveConstruct
    \/ CopyAssign \/ MoveAssign \/ Destroy
    \/ WriteElement \/ SwapRowsOf \/ DeterminantOf

SpecObj == InitObj /\ [][NextObj]_vars


\* What object p is to its users: its size and its elements.
View(ob, hp, p) ==
    [size |-> ob[p].size,
     cells |-> IF ob[p].data = Null THEN <<>> ELSE hp[ob[p].data].cells]

Mutations == {"write", "swapRows", "determinant"}

\* C6: an element write, a swapRows or a calculateDeterminant on one of an
\* original and its duplicate (made by the copy constructor, the copy
\* assignment or copy()) leaves the size and every element of the other
\* unchanged.
C6_CopyIsIndependent ==
    [][hist'.last \in Mutations =>
          \A p \in Objs :
              (<<hist'.obj, p>> \in hist.dup \/ <<p, hist'.obj>> \in hist.dup)
                  => View(objs', heap', p) = View(objs, heap, p)]_vars

\* calculateDeterminant has just run on the duplicate of a 2 x 2 matrix,
\* and the duplicate's elements now differ from the original's.
C6_Witness ==
    /\ hist.last = "determinant"
    /\ \E p \in Objs :
           /\ <<p, hist.obj>> \in hist.dup
           /\ objs[p].size = 2
           /\ View(objs, heap, p).cells # View(objs, heap, hist.obj).cells

Consistent(o) ==
    /\ Len(View(objs, heap, o).cells) = objs[o].size * objs[o].size
    /\ objs[o].data # Null => heap[objs[o].data].used
    /\ \A p \in Objs \ {o} :
           Live(p) /\ objs[o].data # Null => objs[p].data # objs[o].data

Moves == {"move-construct", "move-assign"}

\* C7: every live object's buffer holds size * size elements and is shared
\* with no other live object; a move leaves the source with size 0 and no
\* buffer and gives the destination the source's former size and elements
\* (a move assignment of an object to itself changes nothing).
C7_SizeMatchesBuffer ==
    /\ [](\A o \in Objs : Live(o) => Consistent(o))
    /\ [][hist'.last \in Moves =>
             IF hist'.obj = hist'.other
             THEN objs' = objs /\ heap' = heap
             ELSE /\ objs'[hist'.other].size = 0
                  /\ objs'[hist'.other].data = Null
                  /\ View(objs', heap', hist'.obj) = View(objs, heap, hist'.other)]_vars

\* A 2 x 2 matrix with a non-zero element was move-assigned to another
\* object.
C7_Witness ==
    /\ hist.last = "move-assign" /\ hist.obj # hist.other
    /\ objs[hist.obj].size = 2
    /\ \E x \in 1..4 : View(objs, heap, hist.obj).cells[x] # Zero
    /\ objs[hist.other].size = 0 /\ objs[hist.other].data = Null


(***************************************************************************)
(* The loaders and main (SpecMain).  A text (a file's content, or what     *)
(* standard input holds) is a sequence of lines, a line a sequence of      *)
(* tokens separated by single blanks.  io holds the run's inputs (argc,    *)
(* whether the file opens, the file's text, standard input's text) and,    *)
(* once main has returned (pc = "exit"), its exit code, the error caught   *)
(* if any, the matrix loaded if any, and out, the determinants printed on  *)
(* standard output.                                                        *)
(***************************************************************************)
Tokens == {"0", "1", "2", "x"}

\* operator>> for a number: the tokens it parses, and the value read.
IsNumber(tok) == tok \in {"0", "1", "2"}

ValueOf(tok) == CASE tok = "0" -> 0 [] tok = "1" -> 1 [] tok = "2" -> 2 [] OTHER -> 0

LinesOf(len) == UNION {[1..c -> Tokens] : c \in 0..len}

Texts == UNION {[1..c -> LinesOf(MaxTokens)] : c \in 0..MaxLines}

\* The number of values a stream of line's tokens yields before it fails.
RECURSIVE ValuesIn(_, _)
ValuesIn(line, i) ==
    IF i <= Len(line) /\ IsNumber(line[i]) THEN 1 + ValuesIn(line, i + 1) ELSE 0

\* getline: the i-th line, and whether there was one.
HasLine(text, i) == i >= 1 /\ i <= Len(text)

LineAt(text, i) == IF HasLine(text, i) THEN text[i] ELSE <<>>

Loaded(size, data) == [ok |-> TRUE, err |-> "none", size |-> size, data |-> data]

Thrown(err) == [ok |-> FALSE, err |-> err, size |-> 0, data |-> <<>>]

\* The first size tokens of a line as one matrix row.
RowValues(line, size) == [j \in 1..size |-> FromInt(ValueOf(line[j]))]

RECURSIVE Flatten(_, _)
Flatten(rows, i) == IF i > Len(rows) THEN <<>> ELSE rows[i] \o Flatten(rows, i + 1)

\* The row loop of readFromFile from line i on; data holds the rows read.
RECURSIVE FileRows(_, _, _, _)
FileRows(text, size, i, data) ==
    IF i > size THEN Loaded(size, data)
    ELSE IF ~HasLine(text, i) THEN Thrown("not enough rows")
    ELSE IF ValuesIn(text[i], 1) < size THEN Thrown("not enough columns")
    ELSE FileRows(text, size, i + 1, data \o RowValues(text[i], size))

\* MatrixReader::readFromFile: the dimension is the number of values on the
\* first line; then the lines are read again from the start.
readFromFile(opens, text) ==
    IF ~opens THEN Thrown("cannot open file")
    ELSE FileRows(text, ValuesIn(LineAt(text, 1), 1), 1, <<>>)

\* The index of the first line with a token (operator>> skips white space,
\* line ends included), 0 if there is none.
RECURSIVE FirstToken(_, _)
FirstToken(text, i) ==
    IF i > Len(text) THEN 0
    ELSE IF text[i] # <<>> THEN i
    ELSE FirstToken(text, i + 1)

\* What getline returns after the dimension was read from line d and
\* cin.ignore() dropped one character: the rest of line d when tokens
\* follow the dimension on it, then the lines after d.
LinesAfterDimension(text, d) ==
    IF Len(text[d]) > 1
    THEN <<SubSeq(text[d], 2, Len(text[d]))>> \o SubSeq(text, d + 1, Len(text))
    ELSE SubSeq(text, d + 1, Len(text))

\* The row loop of readFromUserInput.
RECURSIVE UserRows(_, _, _, _)
UserRows(rows, size, i, data) ==
    IF i > size THEN Loaded(size, data)
    ELSE IF ValuesIn(LineAt(rows, i), 1) < size THEN Thrown("not enough numbers")
    ELSE IF ValuesIn(LineAt(rows, i), 1) > size THEN Thrown("too many numbers")
    ELSE UserRows(rows, size, i + 1, data \o RowValues(rows[i], size))

\* A size too large for make_unique to allocate.
TooLarge == -1

\* What the uninitialised local size may hold when no dimension was read.
Garbage == {0, 1, 2, TooLarge}

\* MatrixReader::readFromUserInput.  cin >> size leaves size as it was
\* (uninitialised: garbage) when standard input holds no token, and sets
\* it to 0 when the first token is no number; in both cases the stream has
\* failed and every later getline yields an empty line.
readFromUserInput(text, garbage) ==
    LET d == FirstToken(text, 1)
        parsed == d # 0 /\ IsNumber(text[d][1])
        size == IF d = 0 THEN garbage
                ELSE IF parsed THEN ValueOf(text[d][1])
                ELSE 0
        rows == IF parsed THEN LinesAfterDimension(text, d) ELSE <<>>
    IN  IF size = 0 THEN Loaded(0, <<>>)
        ELSE IF size = TooLarge THEN Thrown("bad_array_new_length")
        ELSE UserRows(rows, size, 1, <<>>)

\* main after a loader returned or threw: the determinant is computed and
\* printed and main returns 0, or the exception is caught and main
\* returns 1.
Reported(i, r) ==
    IF r.ok
    THEN [i EXCEPT !.pc = "exit", !.exit = 0, !.err = "none", !.loaded = TRUE,
                   !.size = r.size,
                   !.det = calculateDeterminant(r.size, r.data).ret,
                   !.printed = TRUE]
    ELSE [i EXCEPT !.pc = "exit", !.exit = 1, !.err = r.err]

InitMain ==
    /\ \E argc \in 1..3 : \E opens \in BOOLEAN : \E text \in Texts :
           /\ argc = 3 => text = <<>>
           /\ ~opens => argc = 2 /\ text = <<>>
           /\ io = [pc |-> "main", argc |-> argc, opens |-> opens, text |-> text,
                    exit |-> 0, err |-> "none", loaded |-> FALSE, size |-> 0,
                    det |-> Zero, printed |-> FALSE]
    /\ run = Idle /\ hist = Idle /\ alg = Idle /\ objs = Idle /\ heap = Idle
    /\ ops = 0

\* argc == 2: the text is the content of the file argv[1].
MainFile ==
    /\ io.pc = "main" /\ io.argc = 2
    /\ io' = Reported(io, readFromFile(io.opens, io.text))
    /\ UNCHANGED <<run, hist, alg, objs, heap, ops>>

\* argc == 1: the text is what standard input holds.
MainInteractive ==
    /\ io.pc = "main" /\ io.argc = 1
    /\ \E garbage \in Garbage :
           io' = Reported(io, readFromUserInput(io.text, garbage))
    /\ UNCHANGED <<run, hist, alg, objs, heap, ops>>

\* Any other argc: printUsage and return 1.
MainUsage ==
    /\ io.pc = "main" /\ io.argc \notin {1, 2}
    /\ io' = [io EXCEPT !.pc = "exit", !.exit = 1, !.err = "usage"]
    /\ UNCHANGED <<run, hist, alg, objs, heap, ops>>

NextMain == MainFile \/ MainInteractive \/ MainUsage

SpecMain == InitMain /\ [][NextMain]_vars

\* The dimension of the file's matrix: the number of values on its first
\* line.
FileDim == ValuesIn(LineAt(io.text, 1), 1)

FileRowShort == \E i \in 1..FileDim : HasLine(io.text, i) /\ ValuesIn(io.text[i], 1) < FileDim

FileRowLong == \E i \in 1..FileDim : HasLine(io.text, i) /\ ValuesIn(io.text[i], 1) > FileDim

FileRowsMissing == Len(io.text) < FileDim

\* C4: readFromFile fails with a format error, and returns no matrix, when
\* one of the first n rows holds fewer than n values, when one holds more
\* than n values, and when the file holds fewer than n rows; it returns a
\* matrix only when each of the n rows holds exactly n values.
C4_FileLoaderValidates ==
    (io.pc = "exit" /\ io.argc = 2 /\ io.opens) =>
        /\ (FileRowShort \/ FileRowLong \/ FileRowsMissing)
               => ~io.loaded /\ io.err \notin {"none", "cannot open file"}
        /\ io.loaded
               => \A i \in 1..FileDim : HasLine(io.text, i) /\ ValuesIn(io.text[i], 1) = FileDim

\* The dimension standard input gives, if it gives one.
UserDimLine == FirstToken(io.text, 1)

UserDimGiven == UserDimLine # 0 /\ IsNumber(io.text[UserDimLine][1])

UserDim == IF UserDimGiven THEN ValueOf(io.text[UserDimLine][1]) ELSE 0

UserRowsWrong ==
    /\ UserDimGiven
    /\ \E i \in 1..UserDim :
           ValuesIn(LineAt(LinesAfterDimension(io.text, UserDimLine), i), 1) # UserDim

\* The failures C5 lists: of the usage, of the file loader, of the
\* interactive loader.
UsageError == io.argc \notin {1, 2}

FileFailure ==
    io.argc = 2 /\ (~io.opens \/ FileRowShort \/ FileRowLong \/ FileRowsMissing)

UserFailure == io.argc = 1 /\ (~UserDimGiven \/ UserRowsWrong)

\* C5: main returns 0 exactly when a matrix was loaded and its determinant
\* printed; every usage error and every failure of a loader ends with a
\* non-zero exit code and no determinant on standard output.
C5_ExitCode ==
    io.pc = "exit" =>
        /\ io.exit = 0 <=> (io.loaded /\ io.printed)
        /\ (UsageError \/ FileFailure \/ UserFailure) => io.exit # 0 /\ ~io.printed

=============================================================================
